---------------------------- MODULE Spec2Model ----------------------------
(***************************************************************************)
(* A model of the retrieval engine of ietfdata's DataTracker class          *)
(* (src/ietfdata/datatracker.py): the single fetch _retrieve, the           *)
(* generator _retrieve_multi, the request counter of _rate_limit and the    *)
(* on-disk cache, run against a datatracker server that is free to answer   *)
(* any request with any status; and of the constructor of RFCIndex          *)
(* (src/ietfdata/rfcindex.py).                                              *)
(*                                                                          *)
(* Strings the code slices are sequences of one-character strings.  A path  *)
(* under /api/v1/ is the sequence of its slashes and of the names between   *)
(* them: the code compares it with prefixes that end in a slash, and drops  *)
(* its first and its last character, which are slashes.  Times are counted  *)
(* in eighths of a second, so that 1.875 s is the integer 15.               *)
(***************************************************************************)
EXTENDS Integers, Sequences, FiniteSets, TLC

VARIABLES
    cache_dir,   \* self.cache_dir: NoDir, or the directory's name
    files,       \* the file system: file path -> [text, nwrites]
    http_req,    \* self.http_req
    conn_gets,   \* self.session: GETs carried by the connection now open
    srv_rev,     \* the server: revision of the records it holds
    srv_n,       \* the server: number of items in the collection
    gen,         \* the generator objects _retrieve_multi has returned
    pulling,     \* the generator the consumer is blocked in next() of
    exited,      \* sys.exit(1) has been called
    last,        \* what the latest engine operation did (observation)
    prev,        \* what the one before it did (observation)
    gets,        \* number of GETs sent so far (observation)
    closes,      \* session.close() calls: [rate |-> n, retry |-> m] (observation)
    made,        \* the caller: the identifier it has constructed, and compared
    call,        \* the caller: its call of a function of the endpoint catalog
    rfcindex     \* the caller: the RFCIndex object it has constructed

engine == <<cache_dir, files, http_req, conn_gets, srv_rev, srv_n, gen, pulling,
            exited, last, prev, gets, closes>>
caller == <<made, call, rfcindex>>
vars   == <<engine, caller>>

-----------------------------------------------------------------------------
(* Bounds of the model. *)

MaxReq      == 3      \* GETs in a run of Spec
MaxRev      == 1      \* edits of the server's records in a run
MaxSmall    == 2      \* items in the collection in a run of Spec
MaxItems    == 201    \* items in the collection in a run of SpecMulti
MaxRateReq  == 201    \* GETs in a run of SpecRate
MaxRetryReq == 8      \* GETs in a run of SpecRetry
MaxLiveReq  == 14     \* GETs in a run of SpecLive: two pages, each tried to the end
MaxCatReq   == 4      \* GETs in a run of SpecCatalog
MaxEntries  == 2      \* entries of the rfc-index.xml the RFC editor serves
WarmReqs    == 98     \* GETs sent before a run of SpecTwo begins
MaxDocReq   == 110    \* GETs in a run of SpecDocs
MaxFlaky    == 2      \* documents the server may fail to deliver in a run of SpecDocs

(* Constants of the program. *)

PageLimit    == "100"   \* resource_uri.params["limit"] = "100"
ConnLimit    == 100     \* (self.http_req % 100) == 0
RetryStart   == 15      \* retry_time = 1.875   (eighths of a second)
RetryCeiling == 480     \* retry_time > 60      (eighths of a second)

-----------------------------------------------------------------------------
(* Values. *)

NoDir       == "None"
CacheRoot   == "cache"
NoneStr     == <<"None">>          \* Python's None where a str is expected
NoParams    == <<>>                \* the empty dict
Absent      == <<>>                \* Optional[T]: None
Some(v)     == <<v>>               \* Optional[T]: a value

Digit == <<"0", "1", "2", "3", "4", "5", "6", "7", "8", "9">>

RECURSIVE Dec(_)
Dec(n) == IF n < 10 THEN <<Digit[n + 1]>>
          ELSE Dec(n \div 10) \o <<Digit[(n % 10) + 1]>>

CollPath    == <<"/", "d", "/">>                       \* "/d/"
ItemPath(i) == CollPath \o Dec(i) \o <<"/">>           \* "/d/<i>/"
OddPath     == CollPath \o <<"1", "x">>                \* "/d/1x"

Paths     == {ItemPath(1), ItemPath(2), OddPath}
ParamSets == {NoParams, [format |-> "json"]}
Statuses  == {200, 404, 500, 503}
Gens      == {"g1", "g2"}

(* class URI: uri and params *)
URI(u, p) == [uri |-> u, params |-> p]

-----------------------------------------------------------------------------
(* The URI classes. *)

(* "/api/v1/<app>/<model>/" *)
Api(app, model) == <<"/", "api", "/", "v1", "/", app, "/", model, "/">>

(* The subclasses of URI, each with the prefixes its __post_init__ asserts
   one of. *)
Prefixes ==
    [
      DocumentURI                 |-> {Api("doc", "document")},
      GroupURI                    |-> {Api("group", "group")},
      PersonURI                   |-> {Api("person", "person"), Api("person", "historicalperson")},
      PersonAliasURI              |-> {Api("person", "alias")},
      PersonEventURI              |-> {Api("person", "personevent")},
      EmailURI                    |-> {Api("person", "email"), Api("person", "historicalemail")},
      DocumentTypeURI             |-> {Api("name", "doctypename")},
      DocumentStateTypeURI        |-> {Api("doc", "statetype")},
      DocumentStateURI            |-> {Api("doc", "state")},
      StreamURI                   |-> {Api("name", "streamname")},
      SubmissionURI               |-> {Api("submit", "submission")},
      SubmissionCheckURI          |-> {Api("submit", "submissioncheck")},
      SubmissionEventURI          |-> {Api("submit", "submissionevent")},
      DocumentAliasURI            |-> {Api("doc", "docalias")},
      DocumentEventURI            |-> {Api("doc", "docevent")},
      BallotPositionNameURI       |-> {Api("name", "ballotpositionname")},
      BallotTypeURI               |-> {Api("doc", "ballottype")},
      BallotDocumentEventURI      |-> {Api("doc", "ballotdocevent")},
      RelationshipTypeURI         |-> {Api("name", "docrelationshipname")},
      RelatedDocumentURI          |-> {Api("doc", "relateddocument")},
      DocumentAuthorURI           |-> {Api("doc", "documentauthor")},
      GroupStateURI               |-> {Api("name", "groupstatename")},
      GroupTypeNameURI            |-> {Api("name", "grouptypename")},
      GroupHistoryURI             |-> {Api("group", "grouphistory")},
      GroupEventURI               |-> {Api("group", "groupevent")},
      GroupUrlURI                 |-> {Api("group", "groupurl")},
      GroupMilestoneStateNameURI  |-> {Api("name", "groupmilestonestatename")},
      GroupMilestoneURI           |-> {Api("group", "groupmilestone")},
      RoleNameURI                 |-> {Api("name", "rolename")},
      GroupRoleURI                |-> {Api("group", "role")},
      GroupMilestoneHistoryURI    |-> {Api("group", "groupmilestonehistory")},
      GroupMilestoneEventURI      |-> {Api("group", "milestonegroupevent")},
      GroupRoleHistoryURI         |-> {Api("group", "rolehistory")},
      GroupStateChangeEventURI    |-> {Api("group", "changestategroupevent")},
      MeetingURI                  |-> {Api("meeting", "meeting")},
      MeetingTypeURI              |-> {Api("name", "meetingtypename")},
      ScheduleURI                 |-> {Api("meeting", "schedule")},
      SessionURI                  |-> {Api("meeting", "session")},
      TimeslotURI                 |-> {Api("meeting", "timeslot")},
      SessionAssignmentURI        |-> {Api("meeting", "schedtimesessassignment")},
      MailingListURI              |-> {Api("mailinglists", "list")},
      MailingListSubscriptionsURI |-> {Api("mailinglists", "subscribed")}
    ]

TypedKinds == DOMAIN Prefixes
Kinds      == {"URI"} \cup TypedKinds

(* An object of class kind, a subclass of URI or URI itself. *)
TypedURI(kind, u, p) == [uri |-> u, params |-> p, kind |-> kind]

(* str.startswith *)
StartsWith(s, prefix) == Len(s) >= Len(prefix) /\ SubSeq(s, 1, Len(prefix)) = prefix

(* PostInit that asserts nothing. *)
PostInit_Any(kind, uri) == TRUE

(* Whether the assertion of kind's __post_init__ holds of uri; URI has no
   __post_init__. *)
PostInit(kind, uri) ==
    IF kind = "URI" THEN TRUE
    ELSE \E prefix \in Prefixes[kind] : StartsWith(uri, prefix)

(* DataclassEq without the test of the classes. *)
DataclassEq_AnyClass(a, b) == Some(<<a.uri, a.params>> = <<b.uri, b.params>>)

(* The __eq__ that dataclass generates: the fields are compared as tuples when
   the two objects are of the same class; NotImplemented (Absent) otherwise. *)
DataclassEq(a, b) ==
    IF a.kind = b.kind THEN Some(<<a.uri, a.params>> = <<b.uri, b.params>>) ELSE Absent

(* a == b for two distinct objects: a.__eq__(b), then b.__eq__(a) when that
   is not implemented, then identity when neither is. *)
PyEq(a, b) ==
    IF DataclassEq(a, b) # Absent THEN DataclassEq(a, b)[1]
    ELSE IF DataclassEq(b, a) # Absent THEN DataclassEq(b, a)[1]
    ELSE FALSE

(* What the caller has constructed: the class and the arguments of the
   constructor call, the exception it raised, the object it returned, and a
   second object with the outcome of obj == other. *)
NoAttempt ==
    [kind |-> "none", uri |-> NoneStr, params |-> NoParams, raised |-> "none",
     obj |-> Absent, other |-> Absent, equal |-> FALSE]

(* kind(uri, params): the generated __init__ sets the fields, then
   __post_init__ asserts the prefix. *)
Construct(kind, uri, params) ==
    /\ made = NoAttempt
    /\ made' = IF PostInit(kind, uri)
               THEN [NoAttempt EXCEPT !.kind = kind, !.uri = uri, !.params = params,
                                      !.obj = Some(TypedURI(kind, uri, params))]
               ELSE [NoAttempt EXCEPT !.kind = kind, !.uri = uri, !.params = params,
                                      !.raised = "AssertionError"]
    /\ UNCHANGED <<engine, call, rfcindex>>

(* other = kind(uri, params), which succeeds, and obj == other. *)
Compare(kind, uri, params) ==
    /\ made.obj # Absent
    /\ made.other = Absent
    /\ PostInit(kind, uri)
    /\ made' = [made EXCEPT !.other = Some(TypedURI(kind, uri, params)),
                            !.equal = PyEq(made.obj[1], TypedURI(kind, uri, params))]
    /\ UNCHANGED <<engine, call, rfcindex>>

-----------------------------------------------------------------------------
(* The server. *)

(* The collections the server has: "/d/" and those of the endpoints that the
   catalog functions of the model query. *)
Collections ==
    {CollPath, Api("person", "person"), Api("doc", "document"), Api("doc", "docalias"),
     Api("doc", "docevent"), Api("group", "group")}

(* The path of item i of the collection coll. *)
ItemOf(coll, i) == coll \o Dec(i) \o <<"/">>

(* Whether u is the path of a document alias. *)
IsAliasPath(u) ==
    StartsWith(u, Api("doc", "docalias")) /\ Len(u) > Len(Api("doc", "docalias"))

(* The JSON object the server holds for path u; a document alias names its
   document: alias <i> is an alias of document <i>. *)
ServerObject(u) ==
    IF IsAliasPath(u)
    THEN [resource_uri |-> u, rev |-> srv_rev,
          document |-> Api("doc", "document")
                          \o SubSeq(u, Len(Api("doc", "docalias")) + 1, Len(u))]
    ELSE [resource_uri |-> u, rev |-> srv_rev]

(* int() of a decimal string, as the server reads a query parameter. *)
StrToInt(s) == CHOOSE n \in 0..(MaxItems + 200) : ToString(n) = s

(* The URI of the page of lim items of the collection coll after the first
   off, as the server writes it in meta.next:
   "<coll>?limit=<lim>&offset=<off>". *)
PageUriOf(coll, lim, off) ==
    coll \o <<"?", "l", "i", "m", "i", "t", "=">> \o Dec(lim)
         \o <<"&", "o", "f", "f", "s", "e", "t", "=">> \o Dec(off)

(* "/d/?limit=<lim>&offset=<off>" *)
PageUri(lim, off) == PageUriOf(CollPath, lim, off)

(* The collection a request is for: u is its path or the URI of one of its
   pages. *)
CollectionOf(u) ==
    IF u.uri \in Collections THEN u.uri
    ELSE CHOOSE coll \in Collections : StartsWith(u.uri, coll \o <<"?">>)

PageLimits == {20, StrToInt(PageLimit)}

(* The limit and the offset a request asks for; a request that names no
   limit gets the server's default of 20. *)
RequestWindow(u) ==
    IF u.uri \in Collections
    THEN [lim |-> IF "limit" \in DOMAIN u.params THEN StrToInt(u.params["limit"]) ELSE 20,
          off |-> 0]
    ELSE CHOOSE w \in [lim : PageLimits, off : 0..srv_n] :
            u.uri = PageUriOf(CollectionOf(u), w.lim, w.off)

(* The envelope {meta: {next}, objects} the server answers a page request with. *)
ServerPage(u) ==
    LET w    == RequestWindow(u)
        upto == IF w.off + w.lim < srv_n THEN w.off + w.lim ELSE srv_n
    IN  [next    |-> IF w.off + w.lim < srv_n
                     THEN PageUriOf(CollectionOf(u), w.lim, w.off + w.lim)
                     ELSE NoneStr,
         objects |-> [i \in 1..(upto - w.off) |->
                        ServerObject(ItemOf(CollectionOf(u), w.off + i))]]

-----------------------------------------------------------------------------
(* JSON and the typed records. *)

(* json.dump: the text of a JSON object, key by key. *)
JsonDump(o) ==
    <<<<"resource_uri", o.resource_uri>>, <<"rev", o.rev>>>>
       \o (IF "document" \in DOMAIN o THEN <<<<"document", o.document>>>> ELSE <<>>)

(* json.load *)
JsonLoad(t) ==
    IF Len(t) = 3
    THEN [resource_uri |-> t[1][2], rev |-> t[2][2], document |-> t[3][2]]
    ELSE [resource_uri |-> t[1][2], rev |-> t[2][2]]

(* pavlova.from_mapping: the record of a JSON object; its resource_uri is a URI. *)
FromMapping(o) ==
    IF "document" \in DOMAIN o
    THEN [resource_uri |-> URI(o.resource_uri, NoParams), rev |-> o.rev,
          document |-> URI(o.document, NoParams)]
    ELSE [resource_uri |-> URI(o.resource_uri, NoParams), rev |-> o.rev]

-----------------------------------------------------------------------------
(* The cache. *)

(* Path(a, b): b replaces a when b is absolute. *)
PathJoin(a, b) == IF Len(b) > 0 /\ b[1] = "/" THEN b ELSE <<a, "/">> \o b

(* _cache_filepath with a file name that tells an identifier with params from
   one without. *)
_cache_filepath_WithParams(resource_uri) ==
    PathJoin(cache_dir, SubSeq(resource_uri.uri, 2, Len(resource_uri.uri) - 1)
                          \o (IF DOMAIN resource_uri.params = {} THEN <<>> ELSE <<"?">>)
                          \o <<".json">>)

_cache_filepath(resource_uri) ==
    PathJoin(cache_dir, SubSeq(resource_uri.uri, 2, Len(resource_uri.uri) - 1)
                          \o <<".json">>)

(* _obj_is_cached that never finds the file. *)
_obj_is_cached_Never(resource_uri) == FALSE

_obj_is_cached(resource_uri) ==
    IF cache_dir = NoDir THEN FALSE
    ELSE _cache_filepath(resource_uri) \in DOMAIN files

_retrieve_from_cache(resource_uri) ==
    JsonLoad(files[_cache_filepath(resource_uri)].text)

(* open(path, "w") and a write of text: the file system after it.  nwrites
   counts how many times the file has been opened for writing. *)
WriteFile(fs, path, text) ==
    [f \in DOMAIN fs \cup {path} |->
        IF f = path
        THEN [text |-> text, nwrites |-> IF path \in DOMAIN fs THEN fs[path].nwrites + 1 ELSE 1]
        ELSE fs[f]]

(* _cache_obj that writes nothing. *)
_cache_obj_Skip(resource_uri, obj_json) == files

(* _cache_obj that stamps the payload it writes with the next revision. *)
_cache_obj_Stamped(resource_uri, obj_json) ==
    IF cache_dir # NoDir
    THEN WriteFile(files, _cache_filepath(resource_uri),
                   JsonDump([obj_json EXCEPT !.rev = @ + 1]))
    ELSE files

(* The file system after _cache_obj(resource_uri, obj_json). *)
_cache_obj(resource_uri, obj_json) ==
    IF cache_dir # NoDir
    THEN WriteFile(files, _cache_filepath(resource_uri), JsonDump(obj_json))
    ELSE files

-----------------------------------------------------------------------------
(* The rate limiter. *)

(* RateLimitCloses that closes once the connection has carried 100 requests. *)
RateLimitCloses_After(n) == n > 1 /\ (n % ConnLimit) = 1

(* RateLimitCloses that compares the counter with 100 instead of its remainder. *)
RateLimitCloses_Once(n) == n = ConnLimit

(* RateLimitCloses that never closes. *)
RateLimitCloses_Never(n) == FALSE

(* RateLimitCloses that lets two more requests through before it closes. *)
RateLimitCloses_Late(n) == (n % (ConnLimit + 2)) = 0

(* _rate_limit: whether it closes the session, given the incremented counter. *)
RateLimitCloses(n) == (n % ConnLimit) = 0

(* self.session after _rate_limit has brought the counter to n. *)
RateLimitSession(n) == IF RateLimitCloses(n) THEN 0 ELSE conn_gets

(* closes after _rate_limit has brought the counter to n. *)
RateLimitLog(n) == IF RateLimitCloses(n) THEN [closes EXCEPT !.rate = @ + 1] ELSE closes

-----------------------------------------------------------------------------
(* Observations of the engine's operations. *)

NoGen == "none"

(* One operation of the engine, as its caller and the wire saw it:
     op      "retrieve" (a call of _retrieve) or "next" (a next() on a generator)
     uri     the identifier it was given
     hit     whether it was served from the cache
     status  the status of its latest response (0: no response)
     result  what it returned or yielded
     reqs    the GETs it sent
     nth     the place of its latest GET on the connection that carried it
             (1: the first GET after a close or on a new session; 0: no GET) *)
Op(op, uri, hit, status, result, reqs, nth) ==
    [op |-> op, uri |-> uri, hit |-> hit, status |-> status, result |-> result,
     reqs |-> reqs, nth |-> nth]

NoOp == Op("none", URI(NoneStr, NoParams), FALSE, 0, Absent, 0, 0)

-----------------------------------------------------------------------------
(* _retrieve(resource_uri, obj_type), with at most cap GETs in the run and a
   server that answers with one of statuses. *)

(* RetrieveOutcome without the branch for 404. *)
RetrieveOutcome_No404(status_code) ==
    IF status_code = 200 THEN "json" ELSE "exit"

(* RetrieveOutcome with 500 taken for an absence, like 404. *)
RetrieveOutcome_500None(status_code) ==
    IF status_code = 200 THEN "json"
    ELSE IF status_code \in {404, 500} THEN "none"
    ELSE "exit"

(* The branch of _retrieve that a response's status selects. *)
RetrieveOutcome(status_code) ==
    IF status_code = 200 THEN "json"
    ELSE IF status_code = 404 THEN "none"
    ELSE "exit"

(* RetrieveHit with _rate_limit called before the cache is looked at. *)
RetrieveHit_Counting(resource_uri) ==
    /\ http_req' = http_req + 1
    /\ conn_gets' = RateLimitSession(http_req + 1)
    /\ closes' = RateLimitLog(http_req + 1)
    /\ UNCHANGED <<files, exited, gets>>
    /\ last' = Op("retrieve", resource_uri, TRUE, 0,
                  Some(FromMapping(_retrieve_from_cache(resource_uri))), gets' - gets, 0)

(* The object is cached: it is read from the cache file. *)
RetrieveHit(resource_uri) ==
    /\ UNCHANGED <<files, http_req, conn_gets, exited, gets, closes>>
    /\ last' = Op("retrieve", resource_uri, TRUE, 0,
                  Some(FromMapping(_retrieve_from_cache(resource_uri))), gets' - gets, 0)

(* It is not: _rate_limit, one GET, and the branch its status selects. *)
RetrieveMiss(resource_uri, cap, statuses) ==
    /\ gets < cap
    /\ http_req' = http_req + 1
    /\ conn_gets' = RateLimitSession(http_req + 1) + 1
    /\ closes' = RateLimitLog(http_req + 1)
    /\ gets' = gets + 1
    /\ \E status_code \in statuses :
         LET obj_json == ServerObject(resource_uri.uri)
             out      == RetrieveOutcome(status_code)
         IN  /\ files' = IF out = "json" THEN _cache_obj(resource_uri, obj_json) ELSE files
             /\ exited' = (out = "exit")
             /\ last' = Op("retrieve", resource_uri, FALSE, status_code,
                           IF out = "json" THEN Some(FromMapping(obj_json)) ELSE Absent,
                           gets' - gets, conn_gets')

Retrieve(resource_uri, cap, statuses) ==
    /\ ~exited
    /\ pulling = NoGen
    /\ prev' = last
    /\ UNCHANGED <<cache_dir, srv_rev, srv_n, gen, pulling>>
    /\ IF _obj_is_cached(resource_uri)
       THEN RetrieveHit(resource_uri)
       ELSE RetrieveMiss(resource_uri, cap, statuses)

(* The server's records change. *)
ServerEdit ==
    /\ srv_rev < MaxRev
    /\ srv_rev' = srv_rev + 1
    /\ UNCHANGED <<cache_dir, files, http_req, conn_gets, srv_n, gen, pulling,
                   exited, last, prev, gets, closes>>

-----------------------------------------------------------------------------
(* _retrieve_multi(resource_uri, obj_type): a generator.  Its body runs only
   while the consumer is blocked in next() (pulling), from one suspension
   point to the next:
     "idle"   no generator yet
     "start"  created, its body not yet entered
     "items"  in the for loop over the page's objects (suspended at yield,
              or about to leave the loop when objs is empty)
     "retry"  in the retry loop, after the sleep that follows a 500
     "done"   returned (StopIteration)
     "fatal"  sys.exit(1)
   Beside the generator's locals (cur: resource_uri, objs, retry_time) and the
   caller's URI object (arg) a generator records, as observations, the sleeps
   (slept) and the GETs (tries) of the page it is on, and the GETs (reqs), the
   responses other than 200 (errs) and the records yielded since it began. *)

IdleGen ==
    [pc |-> "idle", arg |-> URI(NoneStr, NoParams), cur |-> URI(NoneStr, NoParams),
     objs |-> <<>>, retry_time |-> 0, slept |-> <<>>, tries |-> 0, reqs |-> 0,
     errs |-> 0, yielded |-> <<>>]

(* SetLimit with the page size left to the server's default. *)
SetLimit_Unset(u) == u

(* SetLimit that replaces the params by the page size alone. *)
SetLimit_Only(u) == [u EXCEPT !.params = [limit |-> PageLimit]]

(* resource_uri.params["limit"] = "100", on the caller's URI object *)
SetLimit(u) ==
    [u EXCEPT !.params = [k \in DOMAIN u.params \cup {"limit"} |->
                             IF k = "limit" THEN PageLimit ELSE u.params[k]]]

(* GiveUp that never gives up. *)
GiveUp_Never(retry_time) == FALSE

(* GiveUp with the ceiling doubled. *)
GiveUp_Late(retry_time) == retry_time > 2 * RetryCeiling

(* if retry_time > 60 *)
GiveUp(retry_time) == retry_time > RetryCeiling

(* NextRetryTime with a delay that grows by the first delay each time. *)
NextRetryTime_Linear(retry_time) == retry_time + RetryStart

(* retry_time *= 2 *)
NextRetryTime(retry_time) == retry_time * 2

(* MultiCall that enters the body at once, as the call of a function that is
   not a generator would. *)
MultiCall_Eager(g, resource_uri) ==
    /\ ~exited
    /\ pulling = NoGen
    /\ gen[g].pc = "idle"
    /\ gen' = [gen EXCEPT ![g] = [IdleGen EXCEPT !.pc = "start", !.arg = resource_uri,
                                                 !.cur = resource_uri]]
    /\ pulling' = g
    /\ UNCHANGED <<cache_dir, files, http_req, conn_gets, srv_rev, srv_n,
                   exited, last, prev, gets, closes>>

(* The call _retrieve_multi(resource_uri, obj_type): a generator object; none
   of the body runs. *)
MultiCall(g, resource_uri) ==
    /\ ~exited
    /\ pulling = NoGen
    /\ gen[g].pc = "idle"
    /\ gen' = [gen EXCEPT ![g] = [IdleGen EXCEPT !.pc = "start", !.arg = resource_uri,
                                                 !.cur = resource_uri]]
    /\ UNCHANGED <<cache_dir, files, http_req, conn_gets, srv_rev, srv_n, pulling,
                   exited, last, prev, gets, closes>>

(* The consumer calls next() on the generator. *)
Pull(g) ==
    /\ ~exited
    /\ pulling = NoGen
    /\ gen[g].pc \in {"start", "items"}
    /\ pulling' = g
    /\ prev' = last
    /\ last' = Op("next", gen[g].arg, FALSE, 0, Absent, 0, 0)
    /\ UNCHANGED <<cache_dir, files, http_req, conn_gets, srv_rev, srv_n, gen,
                   exited, gets, closes>>

(* AtLoopHead that takes every GET for the first of its page. *)
AtLoopHead_Always(G) == TRUE

(* The GET about to be sent is the first of its page: it follows _rate_limit()
   and retry_time = 1.875 at the head of the outer loop; the others are sent
   again by the inner loop. *)
AtLoopHead(G) == G.pc # "retry"

(* RetryTimeAt that starts from 1.875 s only for the first page. *)
RetryTimeAt_Carried(G) == IF G.pc = "start" THEN RetryStart ELSE G.retry_time

(* retry_time when the GET about to be sent is answered. *)
RetryTimeAt(G) == IF AtLoopHead(G) THEN RetryStart ELSE G.retry_time

(* One GET of the current page and what the code does with the response:
   from the head of the outer loop (after _rate_limit), or again in the
   retry loop; at most cap GETs in the run, and a server that answers with
   one of statuses. *)
MultiGet(g, cap, statuses) ==
    LET G     == gen[g]
        head  == AtLoopHead(G)
        arg0  == IF G.pc = "start" THEN SetLimit(G.arg) ELSE G.arg
        uri0  == IF G.pc = "start" THEN SetLimit(G.cur) ELSE G.cur
        n     == IF head THEN http_req + 1 ELSE http_req
        conn  == IF head THEN RateLimitSession(n) ELSE conn_gets
        log   == IF head THEN RateLimitLog(n) ELSE closes
        rt    == RetryTimeAt(G)
        sl    == IF head THEN <<>> ELSE G.slept
        G0    == [G EXCEPT !.arg = arg0, !.cur = uri0, !.retry_time = rt, !.slept = sl,
                           !.tries = IF head THEN 1 ELSE @ + 1, !.reqs = @ + 1]
    IN  /\ ~exited
        /\ pulling = g
        /\ \/ G.pc \in {"start", "retry"}
           \/ G.pc = "items" /\ G.objs = <<>> /\ G.cur.uri # NoneStr
        /\ gets < cap
        /\ http_req' = n
        /\ gets' = gets + 1
        /\ UNCHANGED <<cache_dir, files, srv_rev, srv_n, pulling, prev>>
        /\ \E status_code \in statuses :
             /\ last' = [last EXCEPT !.status = status_code, !.reqs = @ + gets' - gets,
                                     !.nth = conn + 1]
             /\ IF status_code = 200
                THEN LET r == ServerPage(uri0)
                     IN  /\ gen' = [gen EXCEPT ![g] =
                                      [G0 EXCEPT !.pc = "items", !.objs = r.objects,
                                                 !.cur = URI(r.next, NoParams)]]
                         /\ conn_gets' = conn + 1
                         /\ closes' = log
                         /\ UNCHANGED exited
                ELSE IF status_code = 500 /\ ~GiveUp(rt)
                THEN /\ gen' = [gen EXCEPT ![g] =
                                  [G0 EXCEPT !.pc = "retry", !.errs = @ + 1,
                                             !.slept = Append(sl, rt),
                                             !.retry_time = NextRetryTime(rt)]]
                     /\ conn_gets' = 0
                     /\ closes' = [log EXCEPT !.retry = @ + 1]
                     /\ UNCHANGED exited
                ELSE /\ gen' = [gen EXCEPT ![g] = [G0 EXCEPT !.pc = "fatal", !.errs = @ + 1]]
                     /\ conn_gets' = conn + 1
                     /\ closes' = log
                     /\ exited' = TRUE

(* MultiYield that yields the cached copy of an object that has one. *)
MultiYield_FromCache(g) ==
    LET G        == gen[g]
        obj_json == Head(G.objs)
        uri      == FromMapping(obj_json).resource_uri
        obj      == IF _obj_is_cached(uri) THEN FromMapping(_retrieve_from_cache(uri))
                    ELSE FromMapping(obj_json)
    IN  /\ ~exited
        /\ pulling = g
        /\ G.pc = "items"
        /\ G.objs # <<>>
        /\ files' = IF _obj_is_cached(uri) THEN files ELSE _cache_obj(uri, obj_json)
        /\ gen' = [gen EXCEPT ![g] = [G EXCEPT !.objs = Tail(G.objs),
                                               !.yielded = Append(G.yielded, obj)]]
        /\ pulling' = NoGen
        /\ last' = [last EXCEPT !.result = Some(obj)]
        /\ UNCHANGED <<cache_dir, http_req, conn_gets, srv_rev, srv_n, exited, prev,
                       gets, closes>>

(* MultiYield that does not write the object to the cache. *)
MultiYield_Uncached(g) ==
    LET G        == gen[g]
        obj_json == Head(G.objs)
        obj      == FromMapping(obj_json)
    IN  /\ ~exited
        /\ pulling = g
        /\ G.pc = "items"
        /\ G.objs # <<>>
        /\ gen' = [gen EXCEPT ![g] = [G EXCEPT !.objs = Tail(G.objs),
                                               !.yielded = Append(G.yielded, obj)]]
        /\ pulling' = NoGen
        /\ last' = [last EXCEPT !.result = Some(obj)]
        /\ UNCHANGED <<cache_dir, files, http_req, conn_gets, srv_rev, srv_n, exited,
                       prev, gets, closes>>

(* The for loop's next object: cached under its own resource_uri, yielded. *)
MultiYield(g) ==
    LET G        == gen[g]
        obj_json == Head(G.objs)
        obj      == FromMapping(obj_json)
    IN  /\ ~exited
        /\ pulling = g
        /\ G.pc = "items"
        /\ G.objs # <<>>
        /\ files' = _cache_obj(obj.resource_uri, obj_json)
        /\ gen' = [gen EXCEPT ![g] = [G EXCEPT !.objs = Tail(G.objs),
                                               !.yielded = Append(G.yielded, obj)]]
        /\ pulling' = NoGen
        /\ last' = [last EXCEPT !.result = Some(obj)]
        /\ UNCHANGED <<cache_dir, http_req, conn_gets, srv_rev, srv_n, exited, prev,
                       gets, closes>>

(* The outer loop ends: resource_uri.uri is None. *)
MultiStop(g) ==
    LET G == gen[g]
    IN  /\ ~exited
        /\ pulling = g
        /\ G.pc = "items"
        /\ G.objs = <<>>
        /\ G.cur.uri = NoneStr
        /\ gen' = [gen EXCEPT ![g] = [G EXCEPT !.pc = "done"]]
        /\ pulling' = NoGen
        /\ UNCHANGED <<cache_dir, files, http_req, conn_gets, srv_rev, srv_n, exited,
                       last, prev, gets, closes>>

-----------------------------------------------------------------------------
(* The endpoint catalog: functions that build an identifier and hand it to
   _retrieve_multi, and lookups that list what it yields.  An argument of type
   Optional[T] is Absent or Some(v).  The caller's call is
     fn       the function called
     args     its arguments
     pc       "idle" (no call yet), "listing" (in list(...), pulling from the
              generator), "returned", "raised" or "exited" (sys.exit(1)); and
              for a function that is itself a generator "start" (created,
              its body not yet entered), "running" (the consumer is blocked
              in its next()), "suspended" (at its yield) or "done"
     result   what it returned, where that is an Optional record
     raised   the exception that ended it
     fetches  the calls of document() it has made
     yielded  what it has yielded so far, where it is a generator *)

NoCall ==
    [fn |-> "none", args |-> <<>>, pc |-> "idle", result |-> Absent, raised |-> "none",
     fetches |-> 0, yielded |-> <<>>]

(* str.lower, letter by letter *)
LowerCase ==
    [A |-> "a", B |-> "b", C |-> "c", D |-> "d", E |-> "e", F |-> "f", G |-> "g",
     H |-> "h", I |-> "i", J |-> "j", K |-> "k", L |-> "l", M |-> "m", N |-> "n",
     O |-> "o", P |-> "p", Q |-> "q", R |-> "r", S |-> "s", T |-> "t", U |-> "u",
     V |-> "v", W |-> "w", X |-> "x", Y |-> "y", Z |-> "z"]

Lower(str) == [i \in 1..Len(str) |-> IF str[i] \in DOMAIN LowerCase THEN LowerCase[str[i]]
                                     ELSE str[i]]

(* url.params[key] = value *)
SetParam(url, key, value) ==
    [url EXCEPT !.params = [k \in DOMAIN url.params \cup {key} |->
                               IF k = key THEN value ELSE url.params[k]]]

(* The identifier people(since, until, name_contains) builds. *)
PeopleURL(since, until, name_contains) ==
    LET url == TypedURI("PersonURI", Api("person", "person"), NoParams)
    IN  SetParam(SetParam(SetParam(url, "time__gte", since), "time__lt", until),
                 "name__contains", name_contains)

(* The identifier documents(since, until, doctype, group) builds. *)
DocumentsURL(since, until, doctype, group) ==
    LET url  == TypedURI("DocumentURI", Api("doc", "document"), NoParams)
        url2 == SetParam(SetParam(url, "time__gt", since), "time__lt", until)
        url3 == IF doctype # Absent THEN SetParam(url2, "type", doctype[1].slug) ELSE url2
    IN  IF group # Absent THEN SetParam(url3, "group", group[1].id) ELSE url3

(* The identifier document_aliases(name) builds. *)
DocumentAliasesURL(name) ==
    SetParam(TypedURI("DocumentAliasURI", Api("doc", "docalias"), NoParams), "name", name)

(* The identifier document_events(since, until, doc, by, event_type) builds. *)
DocumentEventsURL(since, until, doc, by, event_type) ==
    LET url  == TypedURI("DocumentEventURI", Api("doc", "docevent"), NoParams)
        url2 == SetParam(SetParam(url, "time__gt", since), "time__lt", until)
        url3 == IF doc # Absent THEN SetParam(url2, "doc", doc[1].id) ELSE url2
        url4 == IF by # Absent THEN SetParam(url3, "by", by[1].id) ELSE url3
    IN  SetParam(url4, "type", event_type)

(* A catalog function that returns the generator of _retrieve_multi(url, ...). *)
Builder(fn, args, url) ==
    /\ call = NoCall
    /\ MultiCall("g1", url)
    /\ call' = [NoCall EXCEPT !.fn = fn, !.args = args, !.pc = "returned"]
    /\ UNCHANGED <<made, rfcindex>>

People(since, until, name_contains) ==
    Builder("people", [since |-> since, until |-> until, name_contains |-> name_contains],
            PeopleURL(since, until, name_contains))

Documents(since, until, doctype, group) ==
    Builder("documents", [since |-> since, until |-> until, doctype |-> doctype,
                          group |-> group],
            DocumentsURL(since, until, doctype, group))

DocumentAliases(name) ==
    Builder("document_aliases", [name |-> name], DocumentAliasesURL(name))

DocumentEvents(since, until, doc, by, event_type) ==
    Builder("document_events", [since |-> since, until |-> until, doc |-> doc, by |-> by,
                                event_type |-> event_type],
            DocumentEventsURL(since, until, doc, by, event_type))

(* A lookup as far as list(...): the generator exists and list() is about to
   pull from it until it ends. *)
Listing(fn, args, url) ==
    /\ call = NoCall
    /\ MultiCall("g1", url)
    /\ call' = [NoCall EXCEPT !.fn = fn, !.args = args, !.pc = "listing"]
    /\ UNCHANGED <<made, rfcindex>>

(* document_from_rfc(rfc), as far as list(self.document_aliases(...)). *)
DocumentFromRfc(rfc) ==
    IF StartsWith(Lower(rfc), <<"r", "f", "c">>)
    THEN Listing("document_from_rfc", [rfc |-> rfc], DocumentAliasesURL(Some(Lower(rfc))))
    ELSE /\ call = NoCall
         /\ ~exited
         /\ pulling = NoGen
         /\ call' = [NoCall EXCEPT !.fn = "document_from_rfc", !.args = [rfc |-> rfc],
                                   !.pc = "raised", !.raised = "AssertionError"]
         /\ UNCHANGED <<engine, made, rfcindex>>

(* group_from_acronym(acronym), as far as list(self._retrieve_multi(...)). *)
GroupFromAcronym(acronym) ==
    Listing("group_from_acronym", [acronym |-> acronym],
            SetParam(TypedURI("GroupURI", Api("group", "group"), NoParams),
                     "acronym", acronym))

(* LookupOutcome that takes the first of several matches. *)
LookupOutcome_First(n) == IF n = 0 THEN "none" ELSE "one"

(* LookupOutcome that raises when there is no match. *)
LookupOutcome_Strict(n) == IF n = 1 THEN "one" ELSE "raise"

(* The branch of a lookup that the length of the list selects. *)
LookupOutcome(n) ==
    IF n = 0 THEN "none"
    ELSE IF n = 1 THEN "one"
    ELSE "raise"

(* The rest of a lookup, once list(...) has the generator's items: None for
   no item, RuntimeError for several; for one, group_from_acronym returns it
   and document_from_rfc returns self.document(docs[0].document). *)
LookupReturn(cap, statuses) ==
    LET docs == gen["g1"].yielded
        out  == LookupOutcome(Len(docs))
    IN  /\ call.pc = "listing"
        /\ gen["g1"].pc = "done"
        /\ ~exited
        /\ pulling = NoGen
        /\ UNCHANGED <<made, rfcindex>>
        /\ IF out = "one" /\ call.fn = "document_from_rfc"
           THEN /\ Retrieve(docs[1].document, cap, statuses)
                /\ call' = [call EXCEPT !.pc = IF exited' THEN "exited" ELSE "returned",
                                        !.result = last'.result,
                                        !.fetches = @ + 1]
           ELSE /\ UNCHANGED engine
                /\ call' = IF out = "none" THEN [call EXCEPT !.pc = "returned"]
                           ELSE IF out = "one"
                           THEN [call EXCEPT !.pc = "returned", !.result = Some(docs[1])]
                           ELSE [call EXCEPT !.pc = "raised", !.raised = "RuntimeError"]

(* documents_from_bcp(bcp) and documents_from_std(std): generators over the
   generator of document_aliases.  The prefix each asserts: *)
GeneratorFns == [documents_from_bcp |-> <<"b", "c", "p">>,
                 documents_from_std |-> <<"s", "t", "d">>]

(* The call: a generator object; none of the body runs, the assert neither. *)
DocumentsFrom(fn, name) ==
    /\ call = NoCall
    /\ ~exited
    /\ pulling = NoGen
    /\ call' = [NoCall EXCEPT !.fn = fn, !.args = [name |-> name], !.pc = "start"]
    /\ UNCHANGED <<engine, made, rfcindex>>

DocumentsFromBcp(bcp) == DocumentsFrom("documents_from_bcp", bcp)

DocumentsFromStd(std) == DocumentsFrom("documents_from_std", std)

(* The consumer calls next() on it.  The first time the body is entered: the
   assert, and the call of document_aliases that the for statement evaluates;
   later it resumes after its yield. *)
GeneratorNext ==
    /\ call.fn \in DOMAIN GeneratorFns
    /\ call.pc \in {"start", "suspended"}
    /\ ~exited
    /\ pulling = NoGen
    /\ UNCHANGED <<made, rfcindex>>
    /\ IF call.pc = "suspended"
       THEN /\ call' = [call EXCEPT !.pc = "running"]
            /\ UNCHANGED engine
       ELSE IF StartsWith(Lower(call.args.name), GeneratorFns[call.fn])
       THEN /\ MultiCall("g1", DocumentAliasesURL(Some(Lower(call.args.name))))
            /\ call' = [call EXCEPT !.pc = "running"]
       ELSE /\ call' = [call EXCEPT !.pc = "raised", !.raised = "AssertionError"]
            /\ UNCHANGED engine

(* for alias in ...: the for statement calls next() on the generator of
   document_aliases, once the alias before has been dealt with. *)
GeneratorPull ==
    /\ call.fn \in DOMAIN GeneratorFns
    /\ call.pc = "running"
    /\ Len(gen["g1"].yielded) = call.fetches
    /\ Pull("g1")
    /\ UNCHANGED caller

(* YieldsDoc that yields whatever document() has returned. *)
YieldsDoc_Always(doc) == TRUE

(* if doc is not None *)
YieldsDoc(doc) == doc # Absent

(* doc = self.document(alias.document) for the alias just received, and the
   yield of doc if it is not None; at most cap GETs in the run, and a server
   that answers with one of statuses. *)
GeneratorFetch(cap, statuses) ==
    LET alias == gen["g1"].yielded[call.fetches + 1]
    IN  /\ call.fn \in DOMAIN GeneratorFns
        /\ call.pc = "running"
        /\ Len(gen["g1"].yielded) > call.fetches
        /\ Retrieve(alias.document, cap, statuses)
        /\ call' = IF exited'
                   THEN [call EXCEPT !.pc = "exited", !.fetches = @ + 1]
                   ELSE IF YieldsDoc(last'.result)
                   THEN [call EXCEPT !.pc = "suspended", !.fetches = @ + 1,
                                     !.yielded = Append(@, last'.result)]
                   ELSE [call EXCEPT !.fetches = @ + 1]
        /\ UNCHANGED <<made, rfcindex>>

(* The generator of document_aliases has ended: so does this one. *)
GeneratorStop ==
    /\ call.fn \in DOMAIN GeneratorFns
    /\ call.pc = "running"
    /\ ~exited
    /\ pulling = NoGen
    /\ gen["g1"].pc = "done"
    /\ Len(gen["g1"].yielded) = call.fetches
    /\ call' = [call EXCEPT !.pc = "done"]
    /\ UNCHANGED <<engine, made, rfcindex>>

-----------------------------------------------------------------------------
(* RFCIndex (src/ietfdata/rfcindex.py): the index of the RFC editor, fetched
   and parsed by the constructor.  The response's text is the sequence of the
   entries under the root of rfc-index.xml, each well-formed, each the record
   of its tag and its doc_id.  A map of the object is a function from doc_id
   to entry.  The object is
     pc        "none" (not constructed), "constructed", or "raised"
     rfc, rfc_not_issued, bcp, std, fyi     its five maps
     gets      the GETs its constructor has sent
     response  Absent, or Some of the response's status_code and text
     printed   the constructor has printed "cannot fetch RFC index"
     closed    the constructor has closed its session
     raised    the exception that ended the constructor *)

Tags == {"rfc-entry", "rfc-not-issued-entry", "bcp-entry", "std-entry", "fyi-entry",
         "other"}

DocIds == {"0001", "0002"}

Entries == [tag : Tags, doc_id : DocIds]

RECURSIVE SeqsUpTo(_, _)
SeqsUpTo(S, n) ==
    IF n = 0 THEN {<<>>}
    ELSE LET shorter == SeqsUpTo(S, n - 1)
         IN  shorter \cup {Append(q, x) : q \in shorter, x \in S}

NoMap == <<>>

NoIndex ==
    [pc |-> "none", rfc |-> NoMap, rfc_not_issued |-> NoMap, bcp |-> NoMap, std |-> NoMap,
     fyi |-> NoMap, gets |-> 0, response |-> Absent, printed |-> FALSE, closed |-> FALSE,
     raised |-> "none"]

(* map[key] = value *)
Put(map, key, value) ==
    [k \in DOMAIN map \cup {key} |-> IF k = key THEN value ELSE map[k]]

(* FetchFailed that takes only 404 for a failure. *)
FetchFailed_Only404(status_code) == status_code = 404

(* response.status_code != 200 *)
FetchFailed(status_code) == status_code # 200

(* for doc in ET.fromstring(response.text): each entry into the map of its
   tag, NotImplementedError at the first entry of another tag. *)
RECURSIVE Fill(_, _)
Fill(self, docs) ==
    IF docs = <<>> THEN self
    ELSE LET doc == Head(docs)
         IN  IF doc.tag = "rfc-entry"
             THEN Fill([self EXCEPT !.rfc = Put(@, doc.doc_id, doc)], Tail(docs))
             ELSE IF doc.tag = "rfc-not-issued-entry"
             THEN Fill([self EXCEPT !.rfc_not_issued = Put(@, doc.doc_id, doc)], Tail(docs))
             ELSE IF doc.tag = "bcp-entry"
             THEN Fill([self EXCEPT !.bcp = Put(@, doc.doc_id, doc)], Tail(docs))
             ELSE IF doc.tag = "std-entry"
             THEN Fill([self EXCEPT !.std = Put(@, doc.doc_id, doc)], Tail(docs))
             ELSE IF doc.tag = "fyi-entry"
             THEN Fill([self EXCEPT !.fyi = Put(@, doc.doc_id, doc)], Tail(docs))
             ELSE [self EXCEPT !.pc = "raised", !.raised = "NotImplementedError"]

(* RFCIndex(): the five maps empty, one GET of rfc-index.xml, answered with
   status_code and text. *)
RFCIndexInit(status_code, text) ==
    LET self == [NoIndex EXCEPT !.pc = "constructed", !.gets = 1,
                                !.response = Some([status_code |-> status_code,
                                                   text |-> text])]
    IN  /\ rfcindex = NoIndex
        /\ rfcindex' = IF FetchFailed(status_code)
                       THEN [self EXCEPT !.printed = TRUE]
                       ELSE Fill([self EXCEPT !.closed = TRUE], text)
        /\ UNCHANGED <<engine, made, call>>

-----------------------------------------------------------------------------
(* Specifications. *)

SingleURIs == {URI(u, NoParams) : u \in Paths} \cup {URI(ItemPath(1), p) : p \in ParamSets}
MultiURIs  == {URI(CollPath, p) : p \in ParamSets}

InitEngine ==
    /\ files = <<>>
    /\ http_req = 0
    /\ conn_gets = 0
    /\ srv_rev = 0
    /\ gen = [g \in Gens |-> IdleGen]
    /\ pulling = NoGen
    /\ exited = FALSE
    /\ last = NoOp
    /\ prev = NoOp
    /\ gets = 0
    /\ closes = [rate |-> 0, retry |-> 0]
    /\ made = NoAttempt
    /\ call = NoCall
    /\ rfcindex = NoIndex

(* Spec: single fetches and one collection fetch of a short collection, in
   any order, with or without a cache directory, while the server's records
   change. *)
Init ==
    /\ InitEngine
    /\ cache_dir \in {NoDir, CacheRoot}
    /\ srv_n \in 0..MaxSmall

Next ==
    \/ \E u \in SingleURIs : Retrieve(u, MaxReq, Statuses) /\ UNCHANGED caller
    \/ ServerEdit /\ UNCHANGED caller
    \/ \E u \in MultiURIs : MultiCall("g1", u) /\ UNCHANGED caller
    \/ Pull("g1") /\ UNCHANGED caller
    \/ MultiGet("g1", MaxReq, Statuses) /\ UNCHANGED caller
    \/ MultiYield("g1") /\ UNCHANGED caller
    \/ MultiStop("g1") /\ UNCHANGED caller

Spec == Init /\ [][Next]_vars

(* SpecMulti: one collection fetch, fully consumed or abandoned, of a
   collection of up to MaxItems items, from a server that answers every
   request with 200. *)
InitMulti ==
    /\ InitEngine
    /\ cache_dir \in {NoDir, CacheRoot}
    /\ srv_n \in 0..MaxItems

NextMulti ==
    \/ MultiCall("g1", URI(CollPath, NoParams)) /\ UNCHANGED caller
    \/ Pull("g1") /\ UNCHANGED caller
    \/ MultiGet("g1", MaxItems, {200}) /\ UNCHANGED caller
    \/ MultiYield("g1") /\ UNCHANGED caller
    \/ MultiStop("g1") /\ UNCHANGED caller

SpecMulti == InitMulti /\ [][NextMulti]_vars

(* SpecRetry: one collection fetch, of a short collection or of one that
   takes two pages, from a server that answers with any status, long enough
   for a page to use up its retries. *)
InitRetry ==
    /\ InitEngine
    /\ cache_dir \in {NoDir, CacheRoot}
    /\ srv_n \in (0..MaxSmall) \cup {StrToInt(PageLimit) + 1}

NextRetry ==
    \/ \E u \in MultiURIs : MultiCall("g1", u) /\ UNCHANGED caller
    \/ Pull("g1") /\ UNCHANGED caller
    \/ MultiGet("g1", MaxRetryReq, Statuses) /\ UNCHANGED caller
    \/ MultiYield("g1") /\ UNCHANGED caller
    \/ MultiStop("g1") /\ UNCHANGED caller

SpecRetry == InitRetry /\ [][NextRetry]_vars

(* SpecLive: SpecRetry with room for every page to use up its retries, a
   consumer that goes on calling next() until the generator ends, a server
   that answers every request, and code that goes on running. *)
NextLive ==
    \/ \E u \in MultiURIs : MultiCall("g1", u) /\ UNCHANGED caller
    \/ Pull("g1") /\ UNCHANGED caller
    \/ MultiGet("g1", MaxLiveReq, Statuses) /\ UNCHANGED caller
    \/ MultiYield("g1") /\ UNCHANGED caller
    \/ MultiStop("g1") /\ UNCHANGED caller

SpecLive == InitRetry /\ [][NextLive]_vars /\ WF_vars(NextLive)

(* SpecURI: the caller constructs an identifier of any class from any of the
   paths below, and compares it with a second one. *)
TestPaths ==
    LET prefixes == UNION {Prefixes[kind] : kind \in TypedKinds}
    IN  prefixes \cup {prefix \o <<"1", "/">> : prefix \in prefixes}
                 \cup {<<>>, SubSeq(Api("doc", "document"), 1, 8)}

InitURI ==
    /\ InitEngine
    /\ cache_dir = NoDir
    /\ srv_n = 0

NextURI ==
    \/ \E kind \in Kinds, uri \in TestPaths, params \in ParamSets :
          Construct(kind, uri, params)
    \/ \E kind \in Kinds, params \in ParamSets :
          \E uri \in {made.uri, made.uri \o <<"1", "/">>} : Compare(kind, uri, params)

SpecURI == InitURI /\ [][NextURI]_vars

(* SpecCatalog: one call of a function of the endpoint catalog, after single
   fetches of the document that the first alias names; the generator it
   returns is pulled from, by the consumer or by the lookup's list(). *)
CatalogURIs == {URI(ItemOf(Api("doc", "document"), 1), NoParams)}
Since       == {"1970-01-01T00:00:00", "2019-01-01T00:00:00"}
Until       == {"2038-01-19T03:14:07"}
OptStr      == {Absent, Some(<<"x">>)}
OptSlug     == {Absent, Some([slug |-> "draft"])}
OptId       == {Absent, Some([id |-> 1])}
RfcNames    == {<<"r", "f", "c", "1">>, <<"R", "F", "C", "1">>, <<"s", "t", "d", "1">>}
Acronyms    == {"avt"}

NextCatalog ==
    \/ \E u \in CatalogURIs :
          call = NoCall /\ Retrieve(u, MaxCatReq, Statuses) /\ UNCHANGED caller
    \/ \E since \in Since, until \in Until, name_contains \in OptStr :
          People(since, until, name_contains)
    \/ \E since \in Since, until \in Until, doctype \in OptSlug, group \in OptId :
          Documents(since, until, doctype, group)
    \/ \E name \in OptStr : DocumentAliases(name)
    \/ \E since \in Since, until \in Until, doc \in OptId, by \in OptId,
           event_type \in OptStr : DocumentEvents(since, until, doc, by, event_type)
    \/ \E rfc \in RfcNames : DocumentFromRfc(rfc)
    \/ \E acronym \in Acronyms : GroupFromAcronym(acronym)
    \/ Pull("g1") /\ UNCHANGED caller
    \/ MultiGet("g1", MaxCatReq, Statuses) /\ UNCHANGED caller
    \/ MultiYield("g1") /\ UNCHANGED caller
    \/ MultiStop("g1") /\ UNCHANGED caller
    \/ LookupReturn(MaxCatReq, Statuses)

SpecCatalog == Init /\ [][NextCatalog]_vars

(* SpecRate: a long run of single fetches and one collection fetch through
   one engine, past the 200th request. *)
RateURIs == {URI(ItemPath(1), NoParams)}

InitRate ==
    /\ InitEngine
    /\ cache_dir \in {NoDir, CacheRoot}
    /\ srv_n = 1

NextRate ==
    \/ \E u \in RateURIs : Retrieve(u, MaxRateReq, Statuses) /\ UNCHANGED caller
    \/ MultiCall("g1", URI(CollPath, NoParams)) /\ UNCHANGED caller
    \/ Pull("g1") /\ UNCHANGED caller
    \/ MultiGet("g1", MaxRateReq, Statuses) /\ UNCHANGED caller
    \/ MultiYield("g1") /\ UNCHANGED caller
    \/ MultiStop("g1") /\ UNCHANGED caller

SpecRate == InitRate /\ [][NextRate]_vars

(* SpecTwo: two collection fetches of two collections of one or 101 items
   through one DataTracker, the consumer pulling from either in any order,
   from a server that answers every request with 200; before them the
   DataTracker has made no request, or WarmReqs single fetches answered 404. *)
WarmOp(nth) == Op("retrieve", URI(ItemPath(1), NoParams), FALSE, 404, Absent, 1, nth)

InitTwo ==
    /\ cache_dir = NoDir
    /\ files = <<>>
    /\ srv_rev = 0
    /\ srv_n \in {1, StrToInt(PageLimit) + 1}
    /\ gen = [g \in Gens |-> IdleGen]
    /\ pulling = NoGen
    /\ exited = FALSE
    /\ closes = [rate |-> 0, retry |-> 0]
    /\ \E n \in {0, WarmReqs} :
          /\ http_req = n
          /\ conn_gets = n
          /\ gets = n
          /\ last = IF n = 0 THEN NoOp ELSE WarmOp(n)
          /\ prev = IF n < 2 THEN NoOp ELSE WarmOp(n - 1)
    /\ made = NoAttempt
    /\ call = NoCall
    /\ rfcindex = NoIndex

(* the GETs of a run of SpecTwo: those before it and two pages for each fetch *)
MaxTwoReq == WarmReqs + 4

TwoURIs == [g1 |-> URI(CollPath, NoParams), g2 |-> URI(Api("doc", "document"), NoParams)]

NextTwo ==
    \/ \E g \in Gens : MultiCall(g, TwoURIs[g]) /\ UNCHANGED caller
    \/ \E g \in Gens : Pull(g) /\ UNCHANGED caller
    \/ \E g \in Gens : MultiGet(g, MaxTwoReq, {200}) /\ UNCHANGED caller
    \/ \E g \in Gens : MultiYield(g) /\ UNCHANGED caller
    \/ \E g \in Gens : MultiStop(g) /\ UNCHANGED caller

SpecTwo == InitTwo /\ [][NextTwo]_vars

(* SpecDocs: one call of documents_from_bcp or documents_from_std, consumed
   as far as the consumer likes, for a name with 0..MaxSmall or 101 aliases;
   the server answers an alias page with any status and the fetch of a
   document with any status for the first MaxFlaky documents and 200 for the
   others. *)
DocNames == {<<"b", "c", "p", "1">>, <<"B", "C", "P", "1">>, <<"s", "t", "d", "1">>}

DocStatuses(i) == IF i <= MaxFlaky THEN Statuses ELSE {200}

NextDocs ==
    \/ \E bcp \in DocNames : DocumentsFromBcp(bcp)
    \/ \E std \in DocNames : DocumentsFromStd(std)
    \/ GeneratorNext
    \/ GeneratorPull
    \/ MultiGet("g1", MaxDocReq, Statuses) /\ UNCHANGED caller
    \/ MultiYield("g1") /\ UNCHANGED caller
    \/ MultiStop("g1") /\ UNCHANGED caller
    \/ GeneratorFetch(MaxDocReq, DocStatuses(call.fetches + 1))
    \/ GeneratorStop

SpecDocs == InitRetry /\ [][NextDocs]_vars

(* SpecIndex: one construction of an RFCIndex, from an RFC editor that answers
   with any status and any index of up to MaxEntries entries. *)
NextIndex ==
    \E status_code \in Statuses, text \in SeqsUpTo(Entries, MaxEntries) :
       RFCIndexInit(status_code, text)

SpecIndex == Init /\ [][NextIndex]_vars

-----------------------------------------------------------------------------
(* Claims about the collection fetch. *)

G1 == gen["g1"]

(* ceil(n / 100) *)
CeilPages(n) == (n + 99) \div 100

(* The records of the collection's items 1..n, in the server's order. *)
ServerRecords(n) == [i \in 1..n |-> FromMapping(ServerObject(ItemPath(i)))]

(* C1, as stated: a collection fetch consumed to its end from a server that
   answers every request with 200 has yielded exactly the N records of the
   collection, in the server's order, and has sent exactly ceil(N/100)
   requests, for every N >= 0. *)
C1_AsStated ==
    (G1.pc = "done" /\ G1.errs = 0) =>
        /\ G1.yielded = ServerRecords(srv_n)
        /\ G1.reqs = CeilPages(srv_n)
        /\ gets = CeilPages(srv_n)

(* C1, amended: as C1, with ceil(N/100) requests for N >= 1 and exactly one
   request for N = 0 (the empty collection still costs the request that finds
   it empty). *)
C1_Amended ==
    (G1.pc = "done" /\ G1.errs = 0) =>
        /\ G1.yielded = ServerRecords(srv_n)
        /\ G1.reqs = (IF srv_n = 0 THEN 1 ELSE CeilPages(srv_n))
        /\ gets = G1.reqs
        /\ http_req = G1.reqs

(* A fetch of 201 items has ended, having yielded 201 records in 3 requests. *)
C1_Witness ==
    /\ G1.pc = "done"
    /\ srv_n = 201
    /\ Len(G1.yielded) = 201
    /\ G1.reqs = 3

(* The delays 1.875 s, 3.75 s, 7.5 s, 15 s, 30 s, 60 s, in eighths of a second. *)
Backoff == <<15, 30, 60, 120, 240, 480>>

RECURSIVE SumSeq(_)
SumSeq(q) == IF q = <<>> THEN 0 ELSE Head(q) + SumSeq(Tail(q))

(* C2: the sleeps of a page that keeps answering 500 are 1.875 s, 3.75 s,
   7.5 s, 15 s, 30 s, 60 s in that order, one after each 500, and the fetch
   ends fatally on the 500 that follows the 60 s sleep, when the next delay
   would exceed 60 s; a response that is neither 200 nor 500 ends the fetch
   fatally at once, with no sleep and no further GET. *)
C2_Backoff ==
    /\ G1.slept = SubSeq(Backoff, 1, Len(G1.slept))
    /\ G1.pc = "retry" =>
          /\ last.status = 500
          /\ G1.tries = Len(G1.slept)
          /\ G1.retry_time = 2 * G1.slept[Len(G1.slept)]
    /\ G1.pc = "items" => G1.tries = Len(G1.slept) + 1
    /\ G1.pc = "fatal" =>
          /\ exited
          /\ last.status # 200
          /\ G1.tries = Len(G1.slept) + 1
          /\ last.status = 500 =>
                /\ G1.slept = Backoff
                /\ G1.retry_time > RetryCeiling
    /\ (last.op = "next" /\ last.status \notin {0, 200, 500}) => G1.pc = "fatal"

(* A page has answered 500 seven times: six sleeps, then the fatal end. *)
C2_Witness ==
    /\ G1.pc = "fatal"
    /\ exited
    /\ last.status = 500
    /\ G1.slept = Backoff
    /\ G1.tries = 7

(* C3, as stated: the time slept while retrying one page never adds up to
   more than 60 seconds. *)
C3_AsStated == SumSeq(G1.slept) <= RetryCeiling

(* C3, amended: no single sleep is longer than 60 seconds (the engine ends
   fatally instead of sleeping longer than that); the time slept on one page
   adds up to at most 118.125 seconds. *)
C3_Amended ==
    /\ \A i \in 1..Len(G1.slept) : G1.slept[i] <= RetryCeiling
    /\ SumSeq(G1.slept) <= 945
    /\ (G1.pc = "fatal" /\ last.status = 500) => NextRetryTime(G1.slept[Len(G1.slept)]) > RetryCeiling

(* The six sleeps of one page add up to 118.125 seconds, each at most 60. *)
C3_Witness ==
    /\ SumSeq(G1.slept) = 945
    /\ \A i \in 1..Len(G1.slept) : G1.slept[i] <= RetryCeiling

(* The GETs one page can take: the first and one after each sleep. *)
MaxTries == Len(Backoff) + 1

(* C19: a collection fetch that the consumer goes on pulling from ends: the
   generator returns or the process exits.  It returns only from the page
   whose next is None, once the items of every page have been yielded; no page
   is asked for more than 7 times, and the 7th 500 of a page ends the
   process. *)
C19_Terminates ==
    /\ (G1.pc = "start") ~> (G1.pc \in {"done", "fatal"})
    /\ [](/\ G1.pc = "done" => (G1.cur.uri = NoneStr /\ Len(G1.yielded) = srv_n)
          /\ G1.tries <= MaxTries
          /\ (G1.pc = "retry" => G1.tries < MaxTries)
          /\ (G1.pc = "fatal" <=> exited))
    /\ [][ (G1.pc # "done" /\ G1.pc' = "done") =>
               (G1.cur.uri = NoneStr /\ G1.objs = <<>>) ]_vars

(* The first page took 7 GETs and its 100 items were pulled; the second page
   answered 500 seven times, and the process has exited. *)
C19_Witness ==
    /\ G1.pc = "fatal"
    /\ exited
    /\ Len(G1.yielded) = StrToInt(PageLimit)
    /\ G1.tries = MaxTries
    /\ G1.reqs = 2 * MaxTries
    /\ last.status = 500

(* C18: the collection fetch is lazy.  Until the consumer has called next()
   for the first time no request has been sent; a request is sent only while
   the consumer is blocked in next(), and only when every item of every page
   received so far has been yielded; and while the consumer holds k >= 1 items
   and is not asking for more, the requests sent are those for the ceil(k/100)
   pages that hold these k items. *)
C18_Lazy ==
    /\ [](/\ last.op = "none" => G1.reqs = 0
          /\ (pulling = NoGen /\ G1.pc = "start") => G1.reqs = 0
          /\ (pulling = NoGen /\ G1.pc = "items") =>
                 /\ Len(G1.yielded) >= 1
                 /\ G1.reqs = CeilPages(Len(G1.yielded)))
    /\ [][ G1.reqs' # G1.reqs =>
              /\ pulling = "g1"
              /\ G1.reqs' = G1.reqs + 1
              /\ G1.objs = <<>>
              /\ Len(G1.yielded) = StrToInt(PageLimit) * G1.reqs ]_vars

(* The consumer holds the 101 items it has pulled and asks for no more: two
   requests have been sent, where the collection takes three. *)
C18_Witness ==
    /\ pulling = NoGen
    /\ G1.pc = "items"
    /\ Len(G1.yielded) = 101
    /\ G1.reqs = 2
    /\ srv_n = 201

-----------------------------------------------------------------------------
(* Claims about the single fetch and the cache. *)

Caching    == cache_dir # NoDir
IsFetch(o) == o.op = "retrieve"

(* C4: with caching enabled, a single fetch that succeeds without finding a
   cache entry for its identifier (the first fetch of it) has sent exactly one
   request and has left a cache entry for the identifier, holding what it
   returned; and a single fetch of the identical identifier that follows a
   successful one sends no request and returns an equal record, whatever the
   server holds by then. *)
C4_FirstAndSecondFetch ==
    Caching =>
        /\ (IsFetch(last) /\ last.result # Absent /\ ~last.hit) =>
              /\ last.reqs = 1
              /\ last.status = 200
              /\ _obj_is_cached(last.uri)
              /\ Some(FromMapping(_retrieve_from_cache(last.uri))) = last.result
        /\ (IsFetch(prev) /\ prev.result # Absent /\ IsFetch(last) /\ last.uri = prev.uri) =>
              /\ last.hit
              /\ last.reqs = 0
              /\ last.result = prev.result

(* A first fetch went to the network, the server's record changed, and the
   second fetch of the same identifier was served from the cache. *)
C4_Witness ==
    /\ Caching
    /\ IsFetch(prev) /\ ~prev.hit /\ prev.status = 200 /\ prev.reqs = 1
    /\ IsFetch(last) /\ last.uri = prev.uri /\ last.hit
    /\ last.result[1].rev # srv_rev
    /\ gets = 1

(* C7: a single fetch served from the cache leaves the request counter and
   the session as they were; the counter moves only in a step that sends a
   GET, and then by one. *)
C7_HitLeavesCounter ==
    [][ /\ (last'.op = "retrieve" /\ last'.hit) =>
              UNCHANGED <<http_req, conn_gets, gets, closes>>
        /\ http_req' # http_req => (http_req' = http_req + 1 /\ gets' = gets + 1) ]_vars

(* A fetch that went to the network, then one served from the cache: one
   request counted. *)
C7_Witness ==
    /\ IsFetch(prev) /\ ~prev.hit
    /\ IsFetch(last) /\ last.hit
    /\ http_req = 1
    /\ gets = 1
    /\ conn_gets = 1

(* C8: a single fetch that receives 404 returns None without ending the
   process and writes nothing to the cache, so that no entry exists for its
   identifier afterwards and a single fetch of the same path that follows it
   sends a request again. *)
C8_NotFound ==
    /\ [](/\ (IsFetch(last) /\ last.status = 404) =>
                /\ last.result = Absent
                /\ ~exited
                /\ last.reqs = 1
                /\ ~_obj_is_cached(last.uri)
          /\ (IsFetch(prev) /\ prev.status = 404 /\ IsFetch(last)
                /\ last.uri.uri = prev.uri.uri) =>
                /\ ~last.hit
                /\ last.reqs = 1)
    /\ [][(last'.op = "retrieve" /\ last'.status = 404) => files' = files]_vars

(* A fetch answered 404, then a fetch of the same identifier answered 200. *)
C8_Witness ==
    /\ IsFetch(prev) /\ prev.status = 404 /\ prev.result = Absent
    /\ IsFetch(last) /\ last.uri = prev.uri /\ last.status = 200
    /\ ~exited
    /\ gets = 2

(* C9: a single fetch that receives a status other than 200 and 404 ends the
   process after exactly one GET: it returns no record, writes nothing to the
   cache, and nothing is sent or written after it. *)
C9_Fatal ==
    /\ []((IsFetch(last) /\ last.status \notin {0, 200, 404}) =>
              /\ exited
              /\ last.reqs = 1
              /\ last.result = Absent
              /\ ~_obj_is_cached(last.uri))
    /\ [][ /\ (last'.op = "retrieve" /\ last'.status \notin {0, 200, 404}) => files' = files
           /\ exited => UNCHANGED <<files, http_req, conn_gets, gets, closes, last, gen>> ]_vars

(* A single fetch answered 500 has ended the process after one GET. *)
C9_Witness ==
    /\ IsFetch(last) /\ last.status = 500
    /\ exited
    /\ last.reqs = 1
    /\ gets = 1

(* C10, as stated: every cache entry is written at most once. *)
C10_AsStated == \A f \in DOMAIN files : files[f].nwrites <= 1

(* C10, amended: no operation deletes a cache entry, and a single fetch never
   writes an entry that exists; only the collection fetch writes over one: it
   writes the entry of every item it yields, whether or not it exists. *)
C10_Amended ==
    [][ /\ DOMAIN files \subseteq DOMAIN files'
        /\ \A f \in DOMAIN files :
              files'[f] # files[f] =>
                 /\ last'.op = "next"
                 /\ last'.result # Absent
                 /\ f = _cache_filepath(last'.result[1].resource_uri) ]_vars

(* A cache entry has been written twice and holds a later revision of the
   record than the server held at first. *)
C10_Witness ==
    \E f \in DOMAIN files :
        /\ files[f].nwrites = 2
        /\ JsonLoad(files[f].text).rev > 0

-----------------------------------------------------------------------------
(* Claims about the rate limiter. *)

(* C5, as stated: once 100 requests have been sent, the session is closed
   after request 100 and before request 101 is sent, so that request 101 is
   the first on its connection. *)
C5_AsStated ==
    [][ (http_req = 100 /\ http_req' = 101) =>
            (closes'.rate = closes.rate + 1 /\ last'.nth = 1) ]_vars

(* C5, amended: the session is closed for the first time by the call of
   _rate_limit that brings the counter to 100, after request 99 and before
   request 100 is sent, so that request 100 is the first on its connection;
   _rate_limit does not close it between request 100 and request 101. *)
C5_Amended ==
    /\ [](http_req < 100 => closes.rate = 0)
    /\ [][ /\ (http_req = 99 /\ http_req' = 100) =>
                 (closes'.rate = 1 /\ last'.nth = 1)
           /\ (http_req = 100 /\ http_req' = 101) =>
                 (closes'.rate = closes.rate /\ last'.nth = conn_gets + 1) ]_vars

(* Request 101 has been sent as the second request of the connection opened
   for request 100. *)
C5_Witness ==
    /\ http_req = 101
    /\ gets = 101
    /\ closes = [rate |-> 1, retry |-> 0]
    /\ last.nth = 2

(* C6: the request that brings the counter to a multiple of 100 is sent right
   after _rate_limit has closed the session, as the first on its connection;
   a request with any other counter value is sent on the connection as it
   was, and no step that leaves the counter alone has _rate_limit close the
   session. *)
C6_EveryHundredth ==
    [][ /\ http_req' # http_req =>
              IF http_req' % 100 = 0
              THEN closes'.rate = closes.rate + 1 /\ last'.nth = 1
              ELSE closes'.rate = closes.rate /\ last'.nth = conn_gets + 1
        /\ http_req' = http_req => closes'.rate = closes.rate ]_vars

(* Request 200 has been sent after the second close by _rate_limit. *)
C6_Witness ==
    /\ http_req = 200
    /\ closes.rate = 2
    /\ last.nth = 1

-----------------------------------------------------------------------------
(* Claims about the cache key. *)

(* A path without its leading slash and without its trailing slash, where it
   has them. *)
StripSlashes(u) ==
    LET a == IF Len(u) > 0 /\ u[1] = "/" THEN 2 ELSE 1
        b == IF Len(u) >= a /\ u[Len(u)] = "/" THEN Len(u) - 1 ELSE Len(u)
    IN  SubSeq(u, a, b)

(* C11: with caching enabled, the cache file of every identifier path is
   cache-root + "/" + (the path without its leading slash and its trailing
   slash, nothing else removed) + ".json", and no two distinct paths have the
   same cache file: so it is for every path whose cache file exists. *)
C11_AsStated ==
    Caching =>
        \A u1 \in SingleURIs :
            _cache_filepath(u1) \in DOMAIN files =>
               /\ _cache_filepath(u1) =
                      <<cache_dir, "/">> \o StripSlashes(u1.uri) \o <<".json">>
               /\ \A u2 \in SingleURIs :
                      u2.uri # u1.uri => _cache_filepath(u2) # _cache_filepath(u1)

(* C12: the cache key depends on the path only: a single fetch that follows a
   successful single fetch of an identifier with the same path and different
   params is served from the cache, sends no request and returns the same
   record. *)
C12_PathOnly ==
    Caching =>
        /\ \A u1, u2 \in SingleURIs :
              u1.uri = u2.uri => _cache_filepath(u1) = _cache_filepath(u2)
        /\ (IsFetch(prev) /\ prev.result # Absent /\ IsFetch(last)
              /\ last.uri.uri = prev.uri.uri /\ last.uri.params # prev.uri.params) =>
              /\ last.hit
              /\ last.reqs = 0
              /\ last.result = prev.result

(* A fetch of "/d/1/" went to the network, the server's record changed, and a
   fetch of "/d/1/" with params format=json was served from the cache. *)
C12_Witness ==
    /\ Caching
    /\ IsFetch(prev) /\ ~prev.hit /\ prev.status = 200 /\ prev.uri = URI(ItemPath(1), NoParams)
    /\ IsFetch(last) /\ last.hit /\ last.uri = URI(ItemPath(1), [format |-> "json"])
    /\ last.result = prev.result
    /\ last.result[1].rev # srv_rev
    /\ gets = 1

(* C15: every single fetch that returns a record, from the network or from
   the cache, returns one whose resource_uri has the path of the identifier
   that was asked for (the server answers each path with the record of that
   path). *)
C15_SelfIdentifier ==
    (IsFetch(last) /\ last.result # Absent) =>
        last.result[1].resource_uri.uri = last.uri.uri

-----------------------------------------------------------------------------
(* Claims about the identifiers. *)

(* Whether uri starts with one of the prefixes declared for kind. *)
HasPrefix(kind, uri) ==
    \E i \in 0..Len(uri) : SubSeq(uri, 1, i) \in Prefixes[kind]

(* C13: for every subclass of URI, a construction from a path that starts
   with none of the class's prefixes raises and returns no object; one from a
   path that starts with one of them raises nothing and returns an object of
   that class with the uri and the params it was given. *)
C13_Construction ==
    made.kind \in TypedKinds =>
        IF HasPrefix(made.kind, made.uri)
        THEN /\ made.raised = "none"
             /\ made.obj # Absent
             /\ made.obj[1].kind = made.kind
             /\ made.obj[1].uri = made.uri
             /\ made.obj[1].params = made.params
        ELSE /\ made.raised = "AssertionError"
             /\ made.obj = Absent

(* DocumentURI("/api/v1/doc/documentauthor/", {format: json}) has raised. *)
C13_Witness ==
    /\ made.kind = "DocumentURI"
    /\ made.uri = Api("doc", "documentauthor")
    /\ made.params = [format |-> "json"]
    /\ made.raised = "AssertionError"
    /\ made.obj = Absent

(* C14, as stated: two identifiers are equal if and only if their paths are
   equal and their params are equal, whatever their classes. *)
C14_AsStated ==
    made.other # Absent =>
        (made.equal <=> /\ made.obj[1].uri = made.other[1].uri
                        /\ made.obj[1].params = made.other[1].params)

(* C14, amended: two identifiers are equal if and only if they are of the
   same class, their paths are equal and their params are equal. *)
C14_Amended ==
    made.other # Absent =>
        (made.equal <=> /\ made.obj[1].kind = made.other[1].kind
                        /\ made.obj[1].uri = made.other[1].uri
                        /\ made.obj[1].params = made.other[1].params)

(* A DocumentURI and a URI with the same path and the same params have been
   compared. *)
C14_Witness ==
    /\ made.obj = Some(TypedURI("DocumentURI", Api("doc", "document"), [format |-> "json"]))
    /\ made.other = Some(TypedURI("URI", Api("doc", "document"), [format |-> "json"]))
    /\ ~made.equal

-----------------------------------------------------------------------------
(* Claims about the endpoint catalog. *)

Matches == Len(G1.yielded)

(* A lookup that has come to its end without ending the process. *)
LookedUp(fn) ==
    /\ call.fn = fn
    /\ call.pc \in {"returned", "raised"}
    /\ call.raised # "AssertionError"

(* C16: document_from_rfc makes one alias lookup: one request, sent again
   only when it was answered 500.  When the lookup yields one alias it makes
   one document fetch, of the document the alias names, and returns what the
   fetch returns; when it yields two or more it raises RuntimeError and has
   made no document fetch. *)
C16_DocumentFromRfc ==
    /\ [](LookedUp("document_from_rfc") =>
            /\ G1.arg.uri = Api("doc", "docalias")
            /\ G1.reqs - G1.errs = 1
            /\ G1.errs = 0 => G1.reqs = 1
            /\ Matches = 1 =>
                  /\ call.pc = "returned"
                  /\ call.fetches = 1
                  /\ IsFetch(last)
                  /\ last.uri = G1.yielded[1].document
                  /\ last.reqs <= 1
                  /\ call.result = last.result
                  /\ (last.hit \/ last.status = 200) =>
                        /\ call.result # Absent
                        /\ call.result[1].resource_uri = G1.yielded[1].document
            /\ Matches >= 2 =>
                  /\ call.pc = "raised"
                  /\ call.raised = "RuntimeError"
                  /\ call.fetches = 0
                  /\ last.op = "next")
    /\ [][(call.fn = "document_from_rfc" /\ Len(G1.yielded') >= 2) =>
              (~IsFetch(last') /\ (call.pc # "listing" => gets' = gets))]_vars

(* document_from_rfc("RFC1") has found one alias with one request, has
   fetched its document with another, and has returned it. *)
C16_Witness ==
    /\ LookedUp("document_from_rfc")
    /\ call.args.rfc = <<"R", "F", "C", "1">>
    /\ G1.arg.params["name"] = Some(<<"r", "f", "c", "1">>)
    /\ Matches = 1
    /\ G1.reqs = 1
    /\ last.reqs = 1
    /\ gets = 2
    /\ call.result = Some(FromMapping(ServerObject(ItemOf(Api("doc", "document"), 1))))

(* C17, as stated: document_from_rfc and group_from_acronym fail when the
   lookup yields no match and when it yields several, and return a record only
   when it yields exactly one. *)
C17_AsStated ==
    \A fn \in {"document_from_rfc", "group_from_acronym"} :
        LookedUp(fn) =>
            /\ Matches # 1 => call.pc = "raised"
            /\ call.result # Absent => Matches = 1

(* C17, amended: document_from_rfc and group_from_acronym return None when
   the lookup yields no match, without raising and without a document fetch;
   they raise RuntimeError when it yields several, and return a record only
   when it yields exactly one. *)
C17_Amended ==
    \A fn \in {"document_from_rfc", "group_from_acronym"} :
        LookedUp(fn) =>
            /\ Matches = 0 =>
                  /\ call.pc = "returned"
                  /\ call.raised = "none"
                  /\ call.result = Absent
                  /\ call.fetches = 0
            /\ Matches >= 2 =>
                  /\ call.pc = "raised"
                  /\ call.raised = "RuntimeError"
                  /\ call.result = Absent
            /\ call.result # Absent => Matches = 1
            /\ (Matches = 1 /\ fn = "group_from_acronym") =>
                  (call.pc = "returned" /\ call.result = Some(G1.yielded[1]))

(* group_from_acronym has returned None: its lookup took one request and
   yielded nothing. *)
C17_Witness ==
    /\ LookedUp("group_from_acronym")
    /\ call.pc = "returned"
    /\ call.result = Absent
    /\ Matches = 0
    /\ G1.pc = "done"
    /\ G1.reqs = 1

(* The filters of the catalog functions that may be None, each with the key
   it is given in params. *)
OptionalFilters ==
    [people           |-> {<<"name_contains", "name__contains">>},
     documents        |-> {<<"doctype", "type">>, <<"group", "group">>},
     document_aliases |-> {<<"name", "name">>},
     document_events  |-> {<<"doc", "doc">>, <<"by", "by">>, <<"event_type", "type">>}]

(* C20: the identifier a catalog function has built has no entry in params
   for a filter that was passed as None. *)
C20_AsStated ==
    (call.fn \in DOMAIN OptionalFilters /\ G1.pc # "idle") =>
        \A f \in OptionalFilters[call.fn] :
            call.args[f[1]] = Absent => f[2] \notin DOMAIN G1.arg.params

-----------------------------------------------------------------------------
(* C21: constructing an RFCIndex sends exactly one GET; when the response's
   status is not 200 the constructor prints the failure and returns without
   raising, without closing its session, and with all five maps empty. *)
C21_OneGet ==
    rfcindex.pc # "none" =>
        /\ rfcindex.gets = 1
        /\ rfcindex.response[1].status_code # 200 =>
              /\ rfcindex.pc = "constructed"
              /\ rfcindex.raised = "none"
              /\ rfcindex.printed
              /\ rfcindex.rfc = NoMap
              /\ rfcindex.rfc_not_issued = NoMap
              /\ rfcindex.bcp = NoMap
              /\ rfcindex.std = NoMap
              /\ rfcindex.fyi = NoMap

(* an index of two entries answered with 500: nothing of it is kept *)
C21_Witness ==
    /\ rfcindex.pc = "constructed"
    /\ rfcindex.response # Absent
    /\ rfcindex.response[1].status_code = 500
    /\ Len(rfcindex.response[1].text) = MaxEntries
    /\ rfcindex.printed
    /\ rfcindex.rfc = NoMap

-----------------------------------------------------------------------------
(* The GETs the generator g has sent again in its retry loop: one for each 500
   it has been answered with, but for the one it is sleeping on or has given
   up on. *)
ResentGets(g) ==
    gen[g].errs - (IF gen[g].pc \in {"retry", "fatal"} THEN 1 ELSE 0)

(* C22: _rate_limit is called before every GET: the request counter equals
   the number of GETs sent, those sent again after a 500 included. *)
C22_AsStated == http_req = gets

-----------------------------------------------------------------------------
(* C23: whatever single and collection fetches are made, and whatever 500s are
   retried, the connection that is open has never carried more than 100
   GETs since the session was last closed. *)
C23_ConnectionBound ==
    /\ conn_gets <= ConnLimit
    /\ last.nth <= ConnLimit

(* a connection opened by the retry of a 500 and carrying its 100th GET: the GET
   sent again, which is not counted, and 99 counted ones *)
C23_Witness ==
    /\ conn_gets = ConnLimit
    /\ closes.retry >= 1
    /\ ResentGets("g1") >= 1
    /\ http_req % ConnLimit = ConnLimit - 1

-----------------------------------------------------------------------------
(* The pages the generator g has been answered with 200 for. *)
AnsweredPages(g) == gen[g].reqs - gen[g].errs

(* C24: a collection fetch never reads the cache.  Every item it yields comes
   out of a page the server has answered, also when caching is enabled and the
   item is cached: a step that yields an item yields the next object of the
   page received, the pull that yields the first item has sent a request, and
   no pull is served from the cache; only a single fetch is, and from the file
   of the path it asks for. *)
C24_NeverReadsCache ==
    /\ [](/\ Len(G1.yielded) + Len(G1.objs) <= StrToInt(PageLimit) * AnsweredPages("g1")
          /\ last.op = "next" => ~last.hit
          /\ (last.op = "next" /\ last.result # Absent /\ Len(G1.yielded) = 1) =>
                 last.reqs >= 1)
    /\ [][ /\ Len(G1.yielded') > Len(G1.yielded) =>
                /\ G1.objs # <<>>
                /\ G1.yielded' = Append(G1.yielded, FromMapping(Head(G1.objs)))
                /\ last'.result = Some(FromMapping(Head(G1.objs)))
           /\ (last' # last /\ last'.hit) =>
                /\ IsFetch(last')
                /\ _cache_filepath(last'.uri) \in DOMAIN files
                /\ last'.result =
                       Some(FromMapping(JsonLoad(files[_cache_filepath(last'.uri)].text))) ]_vars

(* every item of the collection was in the cache, from a single fetch, before
   the collection fetch began; the server's record has changed since; the
   collection fetch has sent its request and yielded the server's record *)
C24_Witness ==
    /\ Caching
    /\ srv_n = 1
    /\ IsFetch(prev) /\ ~prev.hit /\ prev.status = 200 /\ prev.uri.uri = ItemPath(1)
    /\ last.op = "next" /\ last.reqs = 1 /\ last.status = 200
    /\ last.result # Absent
    /\ last.result[1].rev = srv_rev
    /\ prev.result[1].rev # srv_rev
    /\ G1.yielded = ServerRecords(1)

-----------------------------------------------------------------------------
(* The cache files of the items the generator g has yielded. *)
YieldedFiles(g) ==
    {_cache_filepath(gen[g].yielded[i].resource_uri) : i \in 1..Len(gen[g].yielded)}

(* C25: in a collection fetch with caching enabled, the cache holds at every
   moment, and so when the fetch ends the process on a later page, an entry
   for exactly the items yielded so far, each holding the payload the server
   sent for the item; an item is in the cache when it is yielded, and a step
   that sends a GET, whatever its answer, writes nothing. *)
C25_CacheOfYielded ==
    /\ [](IF Caching
          THEN /\ DOMAIN files = YieldedFiles("g1")
               /\ \A i \in 1..Len(G1.yielded) :
                     LET obj == G1.yielded[i]
                     IN  /\ _obj_is_cached(obj.resource_uri)
                         /\ files[_cache_filepath(obj.resource_uri)].text =
                                JsonDump(ServerObject(obj.resource_uri.uri))
                         /\ FromMapping(_retrieve_from_cache(obj.resource_uri)) = obj
          ELSE files = <<>>)
    /\ [][ /\ gets' # gets => files' = files
           /\ exited' => files' = files ]_vars

(* the second page is answered with a fatal status: the cache holds the 100
   items of the first page, all yielded, and nothing else *)
C25_Witness ==
    /\ Caching
    /\ exited
    /\ G1.pc = "fatal"
    /\ Len(G1.yielded) = StrToInt(PageLimit)
    /\ Cardinality(DOMAIN files) = StrToInt(PageLimit)
    /\ G1.yielded = ServerRecords(StrToInt(PageLimit))

-----------------------------------------------------------------------------
(* The params of u other than the page size. *)
OtherParams(u) == [k \in DOMAIN u.params \ {"limit"} |-> u.params[k]]

(* C26: a collection fetch changes the identifier the caller passed only by
   setting its params["limit"] to "100": the path and the other params stay
   as they were through every page, and the next page is asked for through
   an identifier of its own, built from the server's next URI with no params,
   while the caller's keeps the collection's path. *)
C26_CallerIdentifier ==
    /\ [][ G1.pc # "idle" =>
              /\ G1.arg'.uri = G1.arg.uri
              /\ OtherParams(G1.arg') = OtherParams(G1.arg)
              /\ G1.arg' # G1.arg =>
                    /\ G1.pc = "start"
                    /\ "limit" \notin DOMAIN G1.arg.params
                    /\ G1.arg'.params["limit"] = PageLimit ]_vars
    /\ [](G1.pc \notin {"idle", "start"} =>
              /\ G1.arg.uri = CollPath
              /\ G1.arg.params["limit"] = PageLimit
              /\ \E u \in MultiURIs : G1.arg = SetLimit(u)
              /\ (G1.pc = "items" /\ AnsweredPages("g1") >= 1) =>
                    /\ G1.cur.params = NoParams
                    /\ G1.cur.uri # G1.arg.uri)

(* both pages of a collection of 101 items fetched through an identifier that
   had another param: it has that param and the page size, and its path *)
C26_Witness ==
    /\ G1.pc = "done"
    /\ Len(G1.yielded) = StrToInt(PageLimit) + 1
    /\ AnsweredPages("g1") = 2
    /\ G1.arg = URI(CollPath, [format |-> "json", limit |-> PageLimit])
    /\ G1.cur = URI(NoneStr, NoParams)

-----------------------------------------------------------------------------
(* C27: with caching enabled, a single fetch of a path that a collection
   fetch has yielded an item under sends no request, leaves the request
   counter as it was and returns a record equal to the item yielded. *)
C27_FetchAfterYield ==
    /\ [](\A i \in 1..Len(G1.yielded) :
             (Caching /\ IsFetch(last) /\ last.uri.uri = G1.yielded[i].resource_uri.uri) =>
                 /\ last.hit
                 /\ last.reqs = 0
                 /\ last.status = 0
                 /\ last.result = Some(G1.yielded[i]))
    /\ [][ \A i \in 1..Len(G1.yielded) :
             (Caching /\ gen' = gen /\ IsFetch(last')
                /\ last'.uri.uri = G1.yielded[i].resource_uri.uri) =>
                 /\ http_req' = http_req
                 /\ gets' = gets
                 /\ conn_gets' = conn_gets ]_vars

(* an item yielded by a collection fetch that has sent the only request of the
   run, the server's record changed, and a single fetch of the item's path, with
   another param, served the yielded record from the cache *)
C27_Witness ==
    /\ Caching
    /\ Len(G1.yielded) >= 1
    /\ IsFetch(last)
    /\ last.uri = URI(ItemPath(1), [format |-> "json"])
    /\ last.hit
    /\ last.result = Some(G1.yielded[1])
    /\ last.result[1].rev # srv_rev
    /\ gets = 1
    /\ http_req = 1

-----------------------------------------------------------------------------
(* C28: in a collection fetch the retries are counted page by page.  The first
   500 of every page is slept on for 1.875 s, whatever 500s earlier pages have
   had, so the fetch ends on a 500 only when that page alone has used up its
   delays; the request counter goes up by one with the first GET of a page and
   stays with the GETs sent again; and each 500 that is retried closes the
   session and adds one sleep. *)
C28_PerPage ==
    /\ [](/\ http_req = G1.reqs - ResentGets("g1")
          /\ (G1.pc = "fatal" /\ last.status = 500) =>
                (G1.tries = MaxTries /\ G1.slept = Backoff)
          /\ G1.pc = "retry" => G1.retry_time = Backoff[G1.tries] * 2)
    /\ [][ gets' # gets =>
              /\ G1.pc # "retry" =>
                    /\ http_req' = http_req + 1
                    /\ G1'.tries = 1
                    /\ G1'.pc = "retry" => G1'.slept = <<RetryStart>>
              /\ G1.pc = "retry" =>
                    /\ http_req' = http_req
                    /\ G1'.tries = G1.tries + 1
                    /\ G1'.pc = "retry" =>
                          G1'.slept = Append(G1.slept, G1.retry_time)
              /\ G1'.pc = "retry" =>
                    /\ last'.status = 500
                    /\ closes'.retry = closes.retry + 1
                    /\ conn_gets' = 0
              /\ G1'.pc # "retry" => closes'.retry = closes.retry ]_vars

(* two pages fetched to the end with more 500s between them than one page
   may have: six on the first, one on the second, two requests counted *)
C28_Witness ==
    /\ G1.pc = "done"
    /\ ~exited
    /\ G1.errs = Len(Backoff) + 1
    /\ G1.slept = <<RetryStart>>
    /\ closes.retry = Len(Backoff) + 1
    /\ http_req = 2
    /\ gets = 9

-----------------------------------------------------------------------------
G2 == gen["g2"]

(* The records of items 1..n of the collection coll, in the server's order. *)
RecordsOf(coll, n) == [i \in 1..n |-> FromMapping(ServerObject(ItemOf(coll, i)))]

(* C29: when the consumer pulls in turn from two collection sequences of one
   DataTracker, each sequence yields the items of its own collection in the
   server's order (its i-th item is the collection's i-th, and a pull adds an
   item to the sequence pulled from only), all of them by its end; every
   request of either moves the
   one request counter by one, and the session is closed by the request that
   brings the counter to a multiple of 100, whichever sequence sends it. *)
C29_TwoSequences ==
    /\ [](\A g \in Gens :
            LET n == Len(gen[g].yielded)
            IN  /\ n > 0 =>
                      gen[g].yielded[n] = FromMapping(ServerObject(ItemOf(TwoURIs[g].uri, n)))
                /\ gen[g].pc = "done" =>
                      /\ n = srv_n
                      /\ gen[g].reqs = CeilPages(srv_n))
    /\ [][ /\ \A g \in Gens :
                gen'[g].yielded # gen[g].yielded =>
                   /\ pulling = g
                   /\ gen'[g].yielded =
                          Append(gen[g].yielded,
                                 FromMapping(ServerObject(ItemOf(TwoURIs[g].uri,
                                                                 Len(gen[g].yielded) + 1))))
           /\ http_req' - http_req = (G1'.reqs - G1.reqs) + (G2'.reqs - G2.reqs)
           /\ gets' - gets = http_req' - http_req
           /\ closes'.rate =
                 IF http_req' # http_req /\ http_req' % ConnLimit = 0
                 THEN closes.rate + 1 ELSE closes.rate
           /\ closes'.rate # closes.rate => conn_gets' = 1 ]_vars

(* two sequences of 101 items consumed to the end in turn: four requests
   after the 98 made before, the session closed by the second of them, which
   is the first request of the second sequence *)
C29_Witness ==
    /\ G1.pc = "done"
    /\ G2.pc = "done"
    /\ G1.yielded = ServerRecords(StrToInt(PageLimit) + 1)
    /\ G2.yielded = RecordsOf(Api("doc", "document"), StrToInt(PageLimit) + 1)
    /\ http_req = WarmReqs + 4
    /\ closes.rate = 1
    /\ conn_gets = 3

-----------------------------------------------------------------------------
(* C30: documents_from_bcp and documents_from_std make one call of document()
   for each alias the alias lookup yields, in its order and before they ask
   for the next alias (so that the alias pages and the document fetches
   alternate), and yield what it returns unless it is None: an alias whose
   document is answered 404 is passed over without ending anything, the
   documents yielded are never more than the aliases, and None is never
   yielded. *)
C30_DocumentsFrom ==
    /\ [](call.fn \in DOMAIN GeneratorFns =>
            /\ call.fetches <= Len(G1.yielded)
            /\ Len(G1.yielded) <= call.fetches + 1
            /\ call.pc \in {"suspended", "done"} => Len(G1.yielded) = call.fetches
            /\ Len(call.yielded) <= call.fetches
            /\ \A i \in 1..Len(call.yielded) : call.yielded[i] # Absent
            /\ AnsweredPages("g1") >= 2 => call.fetches >= StrToInt(PageLimit)
            /\ call.pc = "done" => call.fetches = srv_n)
    /\ [][ call.fn \in DOMAIN GeneratorFns =>
             /\ call'.fetches # call.fetches =>
                   /\ call'.fetches = call.fetches + 1
                   /\ IsFetch(last')
                   /\ last'.uri = G1.yielded[call'.fetches].document
                   /\ last'.uri.uri = ItemOf(Api("doc", "document"), call'.fetches)
                   /\ call'.yielded = IF last'.result # Absent
                                      THEN Append(call.yielded, last'.result)
                                      ELSE call.yielded
                   /\ last'.status = 404 =>
                         (~exited' /\ call'.pc = "running" /\ call'.raised = "none")
             /\ call'.yielded # call.yielded =>
                   /\ call'.fetches # call.fetches
                   /\ call'.pc = "suspended"
                   /\ last'.result[1].resource_uri.uri = last'.uri.uri ]_vars

(* 101 aliases on two pages, consumed to the end: 101 fetches, the document
   of the second alias answered 404 and passed over, the other 100 yielded *)
C30_Witness ==
    /\ call.fn = "documents_from_bcp"
    /\ call.pc = "done"
    /\ srv_n = StrToInt(PageLimit) + 1
    /\ AnsweredPages("g1") = 2
    /\ call.fetches = srv_n
    /\ Len(call.yielded) = srv_n - 1
    /\ call.yielded[2][1].resource_uri.uri = ItemOf(Api("doc", "document"), 3)
    /\ ~exited

=============================================================================
